---- MODULE Spec2Model ----
(***************************************************************************)
(* Model of the Arrow Flight client engine of qualithm/arrow-flight-js     *)
(* (src/src/client.ts, the copy of FlightClient starting at line 820).     *)
(*                                                                         *)
(* Two parts share one set of variables:                                   *)
(*   - the session: FlightClient's _state, grpcClient and _bearerToken,    *)
(*     driven by connect(), the channel-readiness callback, close(), the   *)
(*     token setters and the entry of every RPC operation (Spec);          *)
(*   - one stream bridge: the queue/notify rendezvous of                   *)
(*     streamToAsyncIterable for one stream handle, driven by the          *)
(*     consumer's pulls and by the transport's data/error/end events       *)
(*     (SpecBridge).  Bridges keep their queue and waiter in closure-local *)
(*     variables, so one handle is modelled at a time.                     *)
(***************************************************************************)
EXTENDS Integers, Sequences, FiniteSets, TLC

\* ------------------------------------------------------------------ bounds
MaxChannels == 2      \* channels one session may create in a run
MaxCalls    == 2      \* transport calls one session may issue in a run
MaxEvents   == 3      \* events the transport emits on one stream
MaxChunks   == 2     \* FlightData messages given to flightDataToIpc
MaxHeader   == 9     \* longest dataHeader, in bytes
MaxBody     == 2     \* longest dataBody, in bytes
MaxHsEvents == 4      \* events the transport emits on the handshake stream

\* --------------------------------------------------------------- constants
NoCh   == 0           \* grpcClient === null
NULL   == "null"      \* _bearerToken === null
Tokens == {"tokA", "tokB"}

States == {"disconnected", "connecting", "connected", "closed"}

UnaryOps  == {"getFlightInfo", "getSchema"}
ReadOps   == {"listFlights", "doGet", "doAction", "listActions"}
DuplexOps == {"doPut", "doExchange"}
RpcOps    == {"handshake", "cancelFlightInfo"} \cup UnaryOps \cup ReadOps \cup DuplexOps

VARIABLES
    state,        \* FlightClient._state
    grpcClient,   \* FlightClient.grpcClient: a channel id, or NoCh
    bearerToken,  \* FlightClient._bearerToken: a token, or NULL
    nchan,        \* number of FlightServiceClient objects constructed so far
    closeCalls,   \* closeCalls[c]: times the transport's close() ran on channel c
    waits,        \* channels whose waitForReady callback has not fired yet
    calls,        \* number of RPC calls handed to the transport
    credsThrow,   \* the options make buildCredentials() throw (fixed at construction)
    options,      \* FlightClient.options, fixed at construction
    creds,        \* the channel credentials the latest channel was constructed with
    ipc,          \* a call of flightDataToIpc: its argument and its return value
    sent,         \* the latest call options and the metadata created from them
    hs,           \* the handshake() call: its stream, closure variables and promise
    hs2,          \* a second handshake() call on the same session
    un,           \* the latest unary call, or application of the error mapper
    last,         \* the last operation: its name, its outcome, the session before it
    br            \* the stream handle and its bridge

vars == <<state, grpcClient, bearerToken, nchan, closeCalls, waits, calls, credsThrow, options, hs2, ipc, creds,
          sent, hs, un, last, br>>
sessionVars == <<state, grpcClient, bearerToken, nchan, closeCalls, waits, calls, credsThrow,
                 options, hs2, ipc, creds>>
\* What calls hand to the transport.
rpcVars == <<sent, hs, un>>

\* ------------------------------------------------------------------ errors
\* A value that is thrown, passed to a callback or kept as an outcome.
\*   kind      "ok" (no error), "pending" (promise not settled), or what the
\*             value is: "FlightError", "ServiceError" (an Error carrying a
\*             status), "Error", "object", "string", "number", "null",
\*             "undefined"; "TypeError" is the TypeError a property read on
\*             undefined raises
\*   code      FlightError.code
\*   grpcCode  the numeric code property, NoGrpcCode if there is none
\*   message   the message property, UNDEF if there is none; for a string or a
\*             number, its text
\*   details   on a FlightError "" stands for undefined; on any other object
\*             UNDEF says the property is missing and "" is the empty string
\*   metadata  the metadata property
UNDEF == "undefined"
NoGrpcCode == -1000

\* A Buffer: the sequence of the chunks its bytes encode.
Bytes(chunks) == [type |-> "buffer", text |-> "", bytes |-> chunks]
EmptyBuffer == Bytes(<<>>)
\* Buffer.from(text) and buffer.toString("utf8") on the bytes of one text.
BufferFrom(text) == Bytes(<<text>>)
toStringUtf8(buf) == IF buf.bytes = <<>> THEN "" ELSE buf.bytes[1]

\* A string held by a Metadata object or by a metadata record.
MdString(text) == [type |-> "string", text |-> text, bytes |-> <<>>]

\* The metadata property of an error: undefined, or the map of a Metadata.
NoErrorMetadata == [defined |-> FALSE, map |-> [k \in {} |-> MdString("")]]
ErrorMetadata(map) == [defined |-> TRUE, map |-> map]

ValM(kind, code, grpcCode, message, details, metadata) ==
    [kind |-> kind, code |-> code, grpcCode |-> grpcCode,
     message |-> message, details |-> details, metadata |-> metadata]

Val(kind, code, grpcCode, message, details) ==
    ValM(kind, code, grpcCode, message, details, NoErrorMetadata)

Ok      == Val("ok", "", NoGrpcCode, "", "")
Pending == Val("pending", "", NoGrpcCode, "", "")

FlightError(message, code) == Val("FlightError", code, NoGrpcCode, message, "")

\* The error createSsl() raises on unusable key material.
CredentialErrors == { Val("Error", "", NoGrpcCode, "invalid credentials", "") }

\* Errors the waitForReady callback may report.
RawErrors ==
    { Val("Error", "", NoGrpcCode, "Failed to connect before the deadline", ""),
      Val("ServiceError", "", 14, "14 UNAVAILABLE", "no connection"),
      Val("ServiceError", "", 99, "99 ?", "") }

\* The table looked up one place off.
grpcStatusToFlightCode_Shifted(code) ==
    LET kinds == <<"CANCELLED", "UNKNOWN", "INVALID_ARGUMENT", "DEADLINE_EXCEEDED",
                   "NOT_FOUND", "ALREADY_EXISTS", "PERMISSION_DENIED", "RESOURCE_EXHAUSTED",
                   "FAILED_PRECONDITION", "ABORTED", "OUT_OF_RANGE", "UNIMPLEMENTED",
                   "INTERNAL", "UNAVAILABLE", "DATA_LOSS", "UNAUTHENTICATED">>
    IN  IF code \in 0..15 THEN kinds[code + 1] ELSE "UNKNOWN"

grpcStatusToFlightCode(code) ==
    CASE code = 1  -> "CANCELLED"
      [] code = 2  -> "UNKNOWN"
      [] code = 3  -> "INVALID_ARGUMENT"
      [] code = 4  -> "DEADLINE_EXCEEDED"
      [] code = 5  -> "NOT_FOUND"
      [] code = 6  -> "ALREADY_EXISTS"
      [] code = 7  -> "PERMISSION_DENIED"
      [] code = 8  -> "RESOURCE_EXHAUSTED"
      [] code = 9  -> "FAILED_PRECONDITION"
      [] code = 10 -> "ABORTED"
      [] code = 11 -> "OUT_OF_RANGE"
      [] code = 12 -> "UNIMPLEMENTED"
      [] code = 13 -> "INTERNAL"
      [] code = 14 -> "UNAVAILABLE"
      [] code = 15 -> "DATA_LOSS"
      [] code = 16 -> "UNAUTHENTICATED"
      [] OTHER     -> "UNKNOWN"

\* typeof error === "object" && error !== null, and error instanceof Error
isObject(e) == e.kind \in {"FlightError", "ServiceError", "Error", "object"}
isError(e) == e.kind \in {"FlightError", "ServiceError", "Error"}

isGrpcServiceError(e) ==
    /\ isObject(e)
    /\ e.grpcCode # NoGrpcCode
    /\ e.message # UNDEF

\* Only the string entries of metadata.getMap() are kept; none gives undefined.
extractGrpcMetadata(metadata) ==
    IF ~metadata.defined THEN NoErrorMetadata
    ELSE LET strings == {k \in DOMAIN metadata.map : metadata.map[k].type = "string"}
         IN  IF strings = {} THEN NoErrorMetadata
             ELSE ErrorMetadata([k \in strings |-> metadata.map[k]])

\* String(error) of a value that is not an Error
String(e) ==
    CASE e.kind \in {"string", "number"} -> e.message
      [] e.kind = "null" -> "null"
      [] e.kind = "undefined" -> "undefined"
      [] OTHER -> "[object Object]"

\* error.details.length on an error that has no details property
ReadOfUndefined ==
    Val("TypeError", "", NoGrpcCode, "Cannot read properties of undefined (reading 'length')", "")

\* The FlightError returned, or the TypeError raised.
fromGrpcError(e) ==
    IF e.kind = "FlightError" THEN e
    ELSE IF isGrpcServiceError(e)
         THEN IF e.details = UNDEF
              THEN ReadOfUndefined
              ELSE ValM("FlightError", grpcStatusToFlightCode(e.grpcCode), e.grpcCode,
                        IF e.details # "" THEN e.details ELSE e.message,
                        IF e.details # "" THEN e.details ELSE "",
                        extractGrpcMetadata(e.metadata))
         ELSE IF isError(e)
              THEN Val("FlightError", "UNKNOWN", NoGrpcCode, e.message, "")
              ELSE Val("FlightError", "UNKNOWN", NoGrpcCode, String(e), "")

wrapError(e) == fromGrpcError(e)

\* ----------------------------------------------------------------- options
\* options.auth.  Absent fields are "".
Auth(type, username, password, token, payload) ==
    [type |-> type, username |-> username, password |-> password, token |-> token,
     payload |-> payload]

NoAuth == Auth("none", "", "", "", EmptyBuffer)
Auths ==
    { NoAuth,
      Auth("basic", "user", "pass", "", EmptyBuffer),
      Auth("bearer", "", "", "static-token", EmptyBuffer),
      Auth("mtls", "", "", "", EmptyBuffer),
      Auth("handshake", "", "", "", BufferFrom("raw-handshake")) }

\* options.tls: absent, true, false, or a TlsOptions object, of which only
\* verifyServerCert (unset, true, false) is kept.
Tls(kind, verifyServerCert) == [kind |-> kind, verifyServerCert |-> verifyServerCert]
TlsAbsent == Tls("absent", "unset")
TlsSettings ==
    { TlsAbsent, Tls("true", "unset"), Tls("false", "unset"),
      Tls("object", "unset"), Tls("object", "true"), Tls("object", "false") }

\* options.credentials: unset, or ChannelCredentials the caller built with
\* createInsecure() or createSsl().
ExplicitCredentials == {"unset", "insecure", "ssl"}

DefaultOptions == [auth |-> NoAuth, tls |-> TlsAbsent, credentials |-> "unset"]
AuthOptions == { [DefaultOptions EXCEPT !.auth = a] : a \in Auths }
Options == [auth : Auths, tls : TlsSettings, credentials : ExplicitCredentials]

\* ------------------------------------------------------------- credentials
\* Channel credentials: insecure or ssl; whether they are the caller's own
\* object; whether a client key and certificate were given to createSsl;
\* the checkServerIdentity of the verifyOptions given to createSsl.
Credentials(kind, explicit, clientCert, checkServerIdentity) ==
    [kind |-> kind, explicit |-> explicit, clientCert |-> clientCert,
     checkServerIdentity |-> checkServerIdentity]

NoCreds == Credentials("none", FALSE, FALSE, "none")
createInsecure == Credentials("insecure", FALSE, FALSE, "none")
createSsl(clientCert, checkServerIdentity) ==
    Credentials("ssl", FALSE, clientCert, checkServerIdentity)
DefaultSsl == createSsl(FALSE, "none")

\* tlsOptions.verifyServerCert === false
verifyDisabled_Falsy(tls) == tls.verifyServerCert \in {"false", "unset"}
verifyDisabled(tls) == tls.verifyServerCert = "false"

buildTlsCredentials(tls) ==
    createSsl(FALSE, IF verifyDisabled(tls) THEN "noop" ELSE "none")

\* auth?.type === "mtls"
mtlsConfigured_Never(auth) == FALSE
mtlsConfigured(auth) == auth.type = "mtls"

buildCredentials(o) ==
    IF o.credentials # "unset" THEN Credentials(o.credentials, TRUE, FALSE, "none")
    ELSE IF mtlsConfigured(o.auth) THEN createSsl(TRUE, "none")
    ELSE IF o.tls.kind = "false" THEN createInsecure
    ELSE IF o.tls.kind = "object" THEN buildTlsCredentials(o.tls)
    ELSE DefaultSsl

\* createSsl() is given key material of the options, which it may reject.
UsesKeyMaterial(o) ==
    /\ o.credentials = "unset"
    /\ o.auth.type = "mtls" \/ o.tls.kind = "object"

\* ---------------------------------------------------------------- metadata
\* A Metadata object maps a header key to the list of its values.  A header
\* value is the sequence of the pieces it is concatenated from.
HeaderKeys == {"authorization", "x-custom-header"}

NewMetadata == [k \in HeaderKeys |-> <<>>]

\* Metadata.set replaces the values of the key.
metadataSet(md, key, value) == [md EXCEPT ![key] = <<value>>]

\* Buffer.from(text).toString("base64")
Base64(text) == <<"base64(">> \o text \o <<")">>

\* callOptions.headers a caller may pass: none, a custom header, its own
\* authorization header.
NoHeaders == [k \in {} |-> <<>>]
CallHeaders ==
    { NoHeaders,
      [k \in {"x-custom-header"} |-> <<"custom-value">>],
      [k \in {"authorization"} |-> <<"Token ", "from-caller">>] }

tokenTakesPrecedence_Never(token) == FALSE
tokenTakesPrecedence(token) == token # NULL

createMetadata(token, auth, headers) ==
    LET withAuth ==
          IF tokenTakesPrecedence(token)
          THEN metadataSet(NewMetadata, "authorization", <<"Bearer ", token>>)
          ELSE IF auth.type = "basic"
               THEN metadataSet(NewMetadata, "authorization",
                                <<"Basic ">> \o Base64(<<auth.username, ":", auth.password>>))
               ELSE IF auth.type = "bearer"
                    THEN metadataSet(NewMetadata, "authorization", <<"Bearer ", auth.token>>)
                    ELSE NewMetadata
    IN  [k \in HeaderKeys |->
            IF k \in DOMAIN headers THEN metadataSet(withAuth, k, headers[k])[k]
            ELSE withAuth[k]]

NothingSent == [headers |-> NoHeaders, metadata |-> NewMetadata]

\* hs is the handshake() call of the session:
\*   phase          "none" (not called), "open" (stream opened, listeners on)
\*   events         what the transport emitted on the stream, in order
\*   response       the closure variable response (last data message)
\*   extractedToken the closure variable extractedToken
\*   settled        the promise: "pending", "resolved", "rejected"
\*   error          the rejection, Ok if none;  result: the resolved value
\*   written        the request messages written;  writeEnded: stream.end() ran
\*   streamCalls    the methods handshake() called on the stream, in order
\*   openedAt       the number of the transport call that opened the stream
NoResponse == [present |-> FALSE, protocolVersion |-> 0, payload |-> EmptyBuffer]
Response(payload) == [present |-> TRUE, protocolVersion |-> 0, payload |-> payload]

NoResult == [protocolVersion |-> -1, payload |-> EmptyBuffer, token |-> UNDEF]

NoHandshake ==
    [phase |-> "none", events |-> <<>>, response |-> NoResponse, extractedToken |-> UNDEF,
     settled |-> "pending", error |-> Ok, result |-> NoResult, written |-> <<>>,
     writeEnded |-> FALSE, streamCalls |-> <<>>, openedAt |-> 0]

\* un is the latest unary call (getFlightInfo, getSchema, cancelFlightInfo)
\* or the latest direct application of FlightError.fromGrpcError:
\*   phase   "none", "pending", "resolved", "rejected"; for the mapper
\*           "returned" or "threw"
\*   input   the error the transport reported, or the mapper's argument
\*   out     the rejection or the mapper's result, Ok if none
\*   status  the CancelStatus cancelFlightInfo resolved with
\*   first   the first item of the action sequence seen by cancelFlightInfo
\*   later   the result bodies the action stream delivered after the first item
ResultBody(valid, status) == [valid |-> valid, status |-> status]
FirstItem(type, body) == [type |-> type, body |-> body]
NoItem == FirstItem("none", ResultBody(FALSE, 0))
NoCall == [op |-> "none", phase |-> "none", input |-> Ok, out |-> Ok, status |-> "",
           first |-> NoItem, later |-> <<>>]

\* ------------------------------------------------------------- ipc framing
\* A Uint8Array is a sequence of bytes. A 32-bit unsigned value is kept as its
\* two 16-bit halves.
U32(hi, lo) == [hi |-> hi, lo |-> lo]
toUint32(n) == U32((n \div 65536) % 65536, n % 65536)
IPC_CONTINUATION_TOKEN == U32(65535, 65535)

Uint8Array(n) == [i \in 1..n |-> 0]

\* result.set(bytes, offset)
setBytes(result, bytes, offset) ==
    [i \in 1..Len(result) |->
        IF i > offset /\ i <= offset + Len(bytes) THEN bytes[i - offset] ELSE result[i]]

\* view.setUint32(offset, value, true)
Uint32Bytes_BigEndian(v) == <<v.hi \div 256, v.hi % 256, v.lo \div 256, v.lo % 256>>
Uint32Bytes(v) == <<v.lo % 256, v.lo \div 256, v.hi % 256, v.hi \div 256>>
setUint32(result, offset, v) == setBytes(result, Uint32Bytes(v), offset)

calculatePadding_NoWrap(length) == 8 - (length % 8)
calculatePadding(length) ==
    LET remainder == length % 8
    IN  IF remainder = 0 THEN 0 ELSE 8 - remainder

\* The first loop of flightDataToIpc.
RECURSIVE totalSize(_)
totalSize(flightData) ==
    IF flightData = <<>> THEN 0
    ELSE LET data == Head(flightData)
         IN  (IF Len(data.dataHeader) > 0
              THEN 4 + 4 + Len(data.dataHeader) + calculatePadding(Len(data.dataHeader))
                     + Len(data.dataBody)
              ELSE 0) + totalSize(Tail(flightData))

\* The second loop of flightDataToIpc, from the given offset.
RECURSIVE writeMessages(_, _, _)
writeMessages(flightData, result, offset) ==
    IF flightData = <<>> THEN result
    ELSE LET data == Head(flightData)
             n == Len(data.dataHeader)
             afterToken == setUint32(result, offset, IPC_CONTINUATION_TOKEN)
             afterLength == setUint32(afterToken, offset + 4, toUint32(n))
             afterHeader == setBytes(afterLength, data.dataHeader, offset + 8)
             bodyAt == offset + 8 + n + calculatePadding(n)
             afterBody == IF Len(data.dataBody) > 0
                          THEN setBytes(afterHeader, data.dataBody, bodyAt)
                          ELSE afterHeader
         IN  IF n > 0
             THEN writeMessages(Tail(flightData), afterBody, bodyAt + Len(data.dataBody))
             ELSE writeMessages(Tail(flightData), result, offset)

flightDataToIpc(flightData) ==
    writeMessages(flightData, Uint8Array(totalSize(flightData)), 0)

\* FlightData messages: dataHeader and dataBody are byte arrays of every
\* length up to the bounds, each byte telling its array and position.
FlightData(header, body) == [dataHeader |-> header, dataBody |-> body]
HeaderBytes(n) == [i \in 1..n |-> 16 + i]
BodyBytes(n) == [i \in 1..n |-> 128 + i]
FlightDatas ==
    { FlightData(HeaderBytes(n), BodyBytes(m)) : n \in 0..MaxHeader, m \in 0..MaxBody }
FlightDataArrays == UNION { [1..k -> FlightDatas] : k \in 0..MaxChunks }

NoIpc == [flightData |-> <<>>, called |-> FALSE, result |-> <<>>]

\* ----------------------------------------------------------------- session
Snapshot ==
    [state |-> state, grpcClient |-> grpcClient, bearerToken |-> bearerToken,
     nchan |-> nchan, closeCalls |-> closeCalls, waits |-> waits, calls |-> calls]

Did(op, out) == [op |-> op, out |-> out, pre |-> Snapshot]

\* The call options of a call and the metadata created for it.
Send(headers) ==
    [headers |-> headers, metadata |-> createMetadata(bearerToken, options.auth, headers)]

NoBridge ==
    [kind |-> "none", phase |-> "none", open |-> FALSE, listening |-> FALSE,
     queue |-> <<>>, notify |-> FALSE, emitted |-> <<>>, observed |-> <<>>,
     missed |-> 0, cancelled |-> FALSE, thrown |-> Ok]

Init ==
    /\ state = "disconnected"
    /\ grpcClient = NoCh
    /\ bearerToken = NULL
    /\ nchan = 0
    /\ closeCalls = [c \in {} |-> 0]
    /\ waits = {}
    /\ calls = 0
    /\ options \in AuthOptions
    /\ credsThrow \in {FALSE, UsesKeyMaterial(options)}
    /\ creds = NoCreds
    /\ sent = NothingSent
    /\ hs = NoHandshake
    /\ hs2 = NoHandshake
    /\ un = NoCall
    /\ ipc = NoIpc
    /\ last = [op |-> "new", out |-> Ok,
               pre |-> [state |-> "disconnected", grpcClient |-> NoCh,
                        bearerToken |-> NULL, nchan |-> 0,
                        closeCalls |-> [c \in {} |-> 0], waits |-> {}, calls |-> 0]]
    /\ br = NoBridge

\* connect(): the two early exits.
connectRejectsClosed_NoCheck(st) == FALSE
connectRejectsClosed(st) == st = "closed"

connectReturnsEarly_NoCheck(st) == FALSE
connectReturnsEarly(st) == st = "connected"

\* connect() up to its first suspension point.  When buildCredentials()
\* throws, the catch block runs in the same step.  Otherwise the channel is
\* constructed and stored and the readiness wait is registered on it.
Connect ==
    \/ /\ connectRejectsClosed(state)
       /\ last' = Did("connect", FlightError("client has been closed", "FAILED_PRECONDITION"))
       /\ UNCHANGED <<sessionVars, rpcVars, br>>
    \/ /\ ~connectRejectsClosed(state)
       /\ connectReturnsEarly(state)
       /\ last' = Did("connect", Ok)
       /\ UNCHANGED <<sessionVars, rpcVars, br>>
    \/ /\ ~connectRejectsClosed(state)
       /\ ~connectReturnsEarly(state)
       /\ credsThrow
       /\ \E e \in CredentialErrors :
            /\ state' = "disconnected"
            /\ last' = Did("connect", wrapError(e))
            /\ UNCHANGED <<grpcClient, bearerToken, nchan, closeCalls, waits, calls, credsThrow, options, hs2, ipc, creds,
                         rpcVars, br>>
    \/ /\ ~connectRejectsClosed(state)
       /\ ~connectReturnsEarly(state)
       /\ ~credsThrow
       /\ nchan < MaxChannels
       /\ nchan' = nchan + 1
       /\ grpcClient' = nchan + 1
       /\ closeCalls' = [c \in 1..(nchan + 1) |-> IF c <= nchan THEN closeCalls[c] ELSE 0]
       /\ waits' = waits \cup {nchan + 1}
       /\ state' = "connecting"
       /\ creds' = buildCredentials(options)
       /\ last' = Did("connect", Pending)
       /\ UNCHANGED <<bearerToken, calls, credsThrow, options, hs2, ipc, rpcVars, br>>

\* The waitForReady callback of channel c fires and connect() resumes after
\* its await: success flips the state to connected, an error runs the catch.
Ready(c) ==
    /\ c \in waits
    /\ waits' = waits \ {c}
    /\ \/ /\ state' = "connected"
          /\ last' = Did("ready", Ok)
       \/ \E e \in RawErrors :
            /\ state' = "disconnected"
            /\ last' = Did("ready", wrapError(e))
    /\ UNCHANGED <<grpcClient, bearerToken, nchan, closeCalls, calls, br, credsThrow, options, hs2, ipc, creds,
                   rpcVars>>

\* close()
closeReleases_Keep(gc) == gc
closeReleases(gc) == NoCh

Close ==
    /\ IF grpcClient # NoCh
       THEN /\ closeCalls' = [closeCalls EXCEPT ![grpcClient] = @ + 1]
            /\ grpcClient' = closeReleases(grpcClient)
       ELSE UNCHANGED <<closeCalls, grpcClient>>
    /\ state' = "closed"
    /\ bearerToken' = NULL
    /\ last' = Did("close", Ok)
    /\ UNCHANGED <<nchan, waits, calls, br, credsThrow, options, hs2, ipc, creds, rpcVars>>

setBearerToken(t) ==
    /\ bearerToken' = t
    /\ last' = Did("setBearerToken", Ok)
    /\ UNCHANGED <<state, grpcClient, nchan, closeCalls, waits, calls, br, credsThrow, options, hs2, ipc, creds,
                   rpcVars>>

clearBearerToken ==
    /\ bearerToken # NULL
    /\ bearerToken' = NULL
    /\ last' = Did("clearBearerToken", Ok)
    /\ UNCHANGED <<state, grpcClient, nchan, closeCalls, waits, calls, br, credsThrow, options, hs2, ipc, creds,
                   rpcVars>>

\* getGrpcClient(): TRUE when it returns the channel, FALSE when it throws.
getGrpcClient_HandleOnly(st, gc) == gc # NoCh
getGrpcClient(st, gc) == ~(gc = NoCh \/ st # "connected")

NotConnected == FlightError("client is not connected", "FAILED_PRECONDITION")

\* The body of an RPC operation starts running: at the call for handshake,
\* the unary and the duplex operations and for cancelFlightInfo (which pulls
\* its doAction sequence at once), at the first pull for the lazy read
\* sequences.  Every body begins with getGrpcClient(); only when it returns is
\* a call handed to the transport.
Invoke(op) ==
    /\ IF getGrpcClient(state, grpcClient)
       THEN /\ calls < MaxCalls
            /\ calls' = calls + 1
            /\ \E h \in CallHeaders : sent' = Send(h)
            /\ last' = Did(op, Pending)
       ELSE /\ calls' = calls
            /\ last' = Did(op, NotConnected)
            /\ UNCHANGED sent
    /\ UNCHANGED <<state, grpcClient, bearerToken, nchan, closeCalls, waits, br, credsThrow,
                   options, hs2, ipc, creds, hs, un>>

\* flightDataToIpc(flightData)
FlightDataToIpc ==
    /\ ~ipc.called
    /\ ipc' = [ipc EXCEPT !.called = TRUE, !.result = flightDataToIpc(ipc.flightData)]
    /\ UNCHANGED <<state, grpcClient, bearerToken, nchan, closeCalls, waits, calls,
                   credsThrow, options, hs2, creds, rpcVars, last, br>>

\* A fresh session and an array of FlightData messages.
InitIpc ==
    /\ state = "disconnected"
    /\ grpcClient = NoCh
    /\ bearerToken = NULL
    /\ nchan = 0
    /\ closeCalls = [c \in {} |-> 0]
    /\ waits = {}
    /\ calls = 0
    /\ options = DefaultOptions
    /\ credsThrow = FALSE
    /\ creds = NoCreds
    /\ \E flightData \in FlightDataArrays :
           ipc = [flightData |-> flightData, called |-> FALSE, result |-> <<>>]
    /\ sent = NothingSent
    /\ hs = NoHandshake
    /\ hs2 = NoHandshake
    /\ un = NoCall
    /\ last = [op |-> "new", out |-> Ok,
               pre |-> [state |-> "disconnected", grpcClient |-> NoCh,
                        bearerToken |-> NULL, nchan |-> 0,
                        closeCalls |-> [c \in {} |-> 0], waits |-> {}, calls |-> 0]]
    /\ br = NoBridge

NextIpc == FlightDataToIpc

SpecIpc == InitIpc /\ [][NextIpc]_vars

\* A fresh session with any options.
InitCredentials ==
    /\ state = "disconnected"
    /\ grpcClient = NoCh
    /\ bearerToken = NULL
    /\ nchan = 0
    /\ closeCalls = [c \in {} |-> 0]
    /\ waits = {}
    /\ calls = 0
    /\ options \in Options
    /\ credsThrow \in {FALSE, UsesKeyMaterial(options)}
    /\ creds = NoCreds
    /\ sent = NothingSent
    /\ hs = NoHandshake
    /\ hs2 = NoHandshake
    /\ un = NoCall
    /\ ipc = NoIpc
    /\ last = [op |-> "new", out |-> Ok,
               pre |-> [state |-> "disconnected", grpcClient |-> NoCh,
                        bearerToken |-> NULL, nchan |-> 0,
                        closeCalls |-> [c \in {} |-> 0], waits |-> {}, calls |-> 0]]
    /\ br = NoBridge

NextCredentials ==
    \/ Connect
    \/ \E c \in 1..MaxChannels : Ready(c)
    \/ Close

SpecCredentials == InitCredentials /\ [][NextCredentials]_vars

Next ==
    \/ Connect
    \/ \E c \in 1..MaxChannels : Ready(c)
    \/ Close
    \/ \E t \in Tokens : setBearerToken(t)
    \/ clearBearerToken
    \/ \E op \in RpcOps : Invoke(op)

Spec == Init /\ [][Next]_vars

TypeOK ==
    /\ state \in States
    /\ grpcClient \in 0..MaxChannels
    /\ bearerToken \in Tokens \cup {NULL}
    /\ nchan \in 0..MaxChannels
    /\ waits \subseteq 1..nchan
    /\ calls \in 0..MaxCalls
\* ---------------------------------------------------------------- handshake
\* Values a response Metadata may hold under 'auth-token-bin'.
MdNumber(text) == [type |-> "number", text |-> text, bytes |-> <<>>]

\* A response Metadata: the values of 'authorization' and of 'auth-token-bin'.
Meta(authorization, bin) == [authorization |-> authorization, bin |-> bin]
NoMeta == Meta(<<>>, <<>>)

ServerAuthorization ==
    { <<>>,
      << <<"Bearer ", "abc123">> >>,
      << <<"bearer ", "abc123">> >>,
      << <<"Basic ", "dXNlcjpwYXNz">> >> }

ServerTokenBin ==
    { <<>>,
      << MdString("string-token") >>,
      << BufferFrom("binary-token") >>,
      << MdNumber("12345") >> }

ServerMetadata == { Meta(a, b) : a \in ServerAuthorization, b \in ServerTokenBin }

ServerPayloads == { EmptyBuffer, BufferFrom("payload-token") }

HandshakeErrors ==
    { Val("ServiceError", "", 16, "16 UNAUTHENTICATED", "bad credentials"),
      Val("Error", "", NoGrpcCode, "connection failed", "") }

HsEvent(type, meta, payload, err) == [type |-> type, meta |-> meta, payload |-> payload, err |-> err]

\* BasicAuth.encode({username, password}).finish()
BasicAuthEncode(username, password) == Bytes(<<"BasicAuth", username, password>>)

buildHandshakePayload_BasicOnly(auth) ==
    IF auth.type = "basic" THEN BasicAuthEncode(auth.username, auth.password)
    ELSE EmptyBuffer

buildHandshakePayload(auth) ==
    IF auth.type = "basic" THEN BasicAuthEncode(auth.username, auth.password)
    ELSE IF auth.type = "handshake" THEN auth.payload
    ELSE EmptyBuffer

toLowerCase(piece) ==
    CASE piece = "Bearer " -> "bearer "
      [] piece = "Basic "  -> "basic "
      [] OTHER -> piece

\* authValue.toLowerCase().startsWith("bearer ") and authValue.slice(7)
startsWithBearer(value) == toLowerCase(value[1]) = "bearer "
slice7(value) == value[2]

\* auth-token-bin is looked at only while no token has been found.
binApplies_Always(extracted) == TRUE
binApplies(extracted) == extracted = UNDEF

\* The 'metadata' listener.
onMetadata(extracted, meta) ==
    LET afterAuth ==
          IF Len(meta.authorization) > 0 /\ startsWithBearer(meta.authorization[1])
          THEN slice7(meta.authorization[1])
          ELSE extracted
    IN  IF Len(meta.bin) > 0 /\ binApplies(afterAuth)
        THEN LET tokenValue == meta.bin[1]
             IN  IF tokenValue.type = "string" THEN tokenValue.text
                 ELSE IF tokenValue.type = "buffer" THEN toStringUtf8(tokenValue)
                 ELSE afterAuth
        ELSE afterAuth

\* What the promise executor of handshake() leaves behind as transport call
\* number n: the stream is opened, the four listeners are registered, one
\* request is written and the write side is ended.
openedHandshake(auth, n) ==
    [NoHandshake EXCEPT !.phase = "open",
                        !.openedAt = n,
                        !.written = <<[protocolVersion |-> 0,
                                       payload |-> buildHandshakePayload(auth)]>>,
                        !.writeEnded = TRUE,
                        !.streamCalls = <<"on:data", "on:metadata", "on:error",
                                          "on:end", "write", "end">>]

\* The transport emits on a handshake stream: nothing after 'end', response
\* metadata and an error at most once each.
canEmit(h, type) ==
    /\ h.phase = "open"
    /\ Len(h.events) < MaxHsEvents
    /\ \A i \in DOMAIN h.events : h.events[i].type # "end"
    /\ type \in {"metadata", "error"} => \A i \in DOMAIN h.events : h.events[i].type # type

\* The 'metadata' and 'data' listeners on the closure of one call.
afterMetadata(h, meta) ==
    [h EXCEPT !.events = Append(@, HsEvent("metadata", meta, EmptyBuffer, Ok)),
              !.extractedToken = onMetadata(@, meta)]

afterData(h, payload) ==
    [h EXCEPT !.events = Append(@, HsEvent("data", NoMeta, payload, Ok)),
              !.response = Response(payload)]

\* The 'error' listener.  reject() and resolve() settle a pending promise and
\* do nothing otherwise.
afterError(h, e) ==
    IF h.settled = "pending"
    THEN [h EXCEPT !.events = Append(@, HsEvent("error", NoMeta, EmptyBuffer, e)),
                   !.settled = "rejected", !.error = wrapError(e)]
    ELSE [h EXCEPT !.events = Append(@, HsEvent("error", NoMeta, EmptyBuffer, e))]

NoHandshakeResponse == FlightError("no handshake response received", "INTERNAL")

\* response === null
noResponseReceived_Never(response) == FALSE
noResponseReceived(response) == ~response.present

endInstallsToken_Never(token) == FALSE
endInstallsToken(token) == token # UNDEF

\* if (extractedToken !== undefined) this.setBearerToken(extractedToken)
installedToken_Reset(current, token) == IF endInstallsToken(token) THEN token ELSE NULL
installedToken(current, token) == IF endInstallsToken(token) THEN token ELSE current

\* resolve({ ..., token: extractedToken }): the token of the call's own closure,
\* whatever the session holds.
resolvedToken_Session(own, session) == IF session = NULL THEN UNDEF ELSE session
resolvedToken(own, session) == own

\* The 'end' listener: extractedToken after the fallback to the payload.
tokenAtEnd(h) ==
    IF h.extractedToken = UNDEF /\ Len(h.response.payload.bytes) > 0
    THEN toStringUtf8(h.response.payload)
    ELSE h.extractedToken

\* The 'end' listener: the session's token after it ran.
bearerTokenAfterEnd(h, current) ==
    IF noResponseReceived(h.response) THEN current
    ELSE installedToken(current, tokenAtEnd(h))

\* The 'end' listener: the closure and the promise after it ran.
afterEnd(h, current) ==
    LET ev == HsEvent("end", NoMeta, EmptyBuffer, Ok)
        token == tokenAtEnd(h)
    IN  IF noResponseReceived(h.response)
        THEN IF h.settled = "pending"
             THEN [h EXCEPT !.events = Append(@, ev), !.settled = "rejected",
                            !.error = NoHandshakeResponse]
             ELSE [h EXCEPT !.events = Append(@, ev)]
        ELSE IF h.settled = "pending"
             THEN [h EXCEPT !.events = Append(@, ev), !.extractedToken = token,
                            !.settled = "resolved",
                            !.result = [protocolVersion |-> h.response.protocolVersion,
                                        payload |-> h.response.payload,
                                        token |-> resolvedToken(token,
                                                     bearerTokenAfterEnd(h, current))]]
             ELSE [h EXCEPT !.events = Append(@, ev), !.extractedToken = token]

\* handshake(): getGrpcClient, createMetadata, buildHandshakePayload, then the
\* promise executor.
Handshake ==
    /\ hs.phase = "none"
    /\ IF getGrpcClient(state, grpcClient)
       THEN /\ calls' = calls + 1
            /\ sent' = Send(NoHeaders)
            /\ hs' = openedHandshake(options.auth, calls + 1)
            /\ last' = Did("handshake", Pending)
       ELSE /\ last' = Did("handshake", NotConnected)
            /\ UNCHANGED <<calls, sent, hs>>
    /\ UNCHANGED <<state, grpcClient, bearerToken, nchan, closeCalls, waits, credsThrow,
                   options, hs2, ipc, creds, un, br>>

HsCanEmit(type) == canEmit(hs, type)

HsMetadata(meta) ==
    /\ HsCanEmit("metadata")
    /\ hs' = afterMetadata(hs, meta)
    /\ last' = Did("handshake:metadata", hs.error)
    /\ UNCHANGED <<sessionVars, sent, un, br>>

HsData(payload) ==
    /\ HsCanEmit("data")
    /\ hs' = afterData(hs, payload)
    /\ last' = Did("handshake:data", hs.error)
    /\ UNCHANGED <<sessionVars, sent, un, br>>

HsError(e) ==
    /\ HsCanEmit("error")
    /\ hs' = afterError(hs, e)
    /\ last' = Did("handshake:error", hs'.error)
    /\ UNCHANGED <<sessionVars, sent, un, br>>

\* The 'end' listener.
HsEnd ==
    /\ HsCanEmit("end")
    /\ hs' = afterEnd(hs, bearerToken)
    /\ bearerToken' = bearerTokenAfterEnd(hs, bearerToken)
    /\ last' = Did("handshake:end", hs'.error)
    /\ UNCHANGED <<state, grpcClient, nchan, closeCalls, waits, calls, credsThrow, options, hs2, ipc, creds,
                   sent, un, br>>

\* A second handshake() call on the same session, made while or after the
\* first one: it has its own stream and its own closure.
Handshake2 ==
    /\ hs2.phase = "none"
    /\ IF getGrpcClient(state, grpcClient)
       THEN /\ calls' = calls + 1
            /\ sent' = Send(NoHeaders)
            /\ hs2' = openedHandshake(options.auth, calls + 1)
            /\ last' = Did("handshake", Pending)
       ELSE /\ last' = Did("handshake", NotConnected)
            /\ UNCHANGED <<calls, sent, hs2>>
    /\ UNCHANGED <<state, grpcClient, bearerToken, nchan, closeCalls, waits, credsThrow,
                   options, ipc, creds, hs, un, br>>

Hs2Metadata(meta) ==
    /\ canEmit(hs2, "metadata")
    /\ hs2' = afterMetadata(hs2, meta)
    /\ last' = Did("handshake2:metadata", hs2.error)
    /\ UNCHANGED <<state, grpcClient, bearerToken, nchan, closeCalls, waits, calls,
                   credsThrow, options, ipc, creds, sent, hs, un, br>>

Hs2Data(payload) ==
    /\ canEmit(hs2, "data")
    /\ hs2' = afterData(hs2, payload)
    /\ last' = Did("handshake2:data", hs2.error)
    /\ UNCHANGED <<state, grpcClient, bearerToken, nchan, closeCalls, waits, calls,
                   credsThrow, options, ipc, creds, sent, hs, un, br>>

Hs2End ==
    /\ canEmit(hs2, "end")
    /\ hs2' = afterEnd(hs2, bearerToken)
    /\ bearerToken' = bearerTokenAfterEnd(hs2, bearerToken)
    /\ last' = Did("handshake2:end", hs2'.error)
    /\ UNCHANGED <<state, grpcClient, nchan, closeCalls, waits, calls,
                   credsThrow, options, ipc, creds, sent, hs, un, br>>

\* The session right after a successful connect(), with any configured auth.
InitHandshake ==
    /\ state = "connected"
    /\ grpcClient = 1
    /\ bearerToken = NULL
    /\ nchan = 1
    /\ closeCalls = [c \in {1} |-> 0]
    /\ waits = {}
    /\ calls = 0
    /\ credsThrow = FALSE
    /\ options \in AuthOptions
    /\ creds = DefaultSsl
    /\ sent = NothingSent
    /\ hs = NoHandshake
    /\ hs2 = NoHandshake
    /\ un = NoCall
    /\ ipc = NoIpc
    /\ last = [op |-> "ready", out |-> Ok,
               pre |-> [state |-> "connecting", grpcClient |-> 1,
                        bearerToken |-> NULL, nchan |-> 1,
                        closeCalls |-> [c \in {1} |-> 0], waits |-> {1}, calls |-> 0]]
    /\ br = NoBridge

NextHandshake ==
    \/ Handshake
    \/ \E meta \in ServerMetadata : HsMetadata(meta)
    \/ \E payload \in ServerPayloads : HsData(payload)
    \/ \E e \in HandshakeErrors : HsError(e)
    \/ HsEnd
    \/ Close

SpecHandshake == InitHandshake /\ [][NextHandshake]_vars

\* Two handshake() calls on one connected session.  The stream of the first
\* delivers a Bearer authorization value and an empty response, the stream of
\* the second a response whose payload is the token.
NextOverlap ==
    \/ Handshake
    \/ HsMetadata(Meta(<< <<"Bearer ", "abc123">> >>, <<>>))
    \/ HsData(EmptyBuffer)
    \/ HsEnd
    \/ Handshake2
    \/ Hs2Metadata(NoMeta)
    \/ Hs2Data(BufferFrom("payload-token"))
    \/ Hs2End

SpecOverlap == InitHandshake /\ [][NextOverlap]_vars

\* ------------------------------------------------- unary calls and mapper
StatusCodes == (-2..18) \cup {99, 999}

\* Metadata an error may carry: none, an empty Metadata, binary entries only,
\* string and binary entries.
ErrorMetadatas ==
    { NoErrorMetadata,
      ErrorMetadata([k \in {} |-> MdString("")]),
      ErrorMetadata([k \in {"trace-bin"} |-> BufferFrom("trace")]),
      ErrorMetadata([k \in {"x-request-id", "trace-bin"} |->
                        IF k = "x-request-id" THEN MdString("req-1") ELSE BufferFrom("trace")]) }

\* Errors and objects that expose a numeric code and a message.
StatusCoded ==
    { ValM(kind, "", c, "status message", d, md) :
        kind \in {"ServiceError", "object"}, c \in StatusCodes,
        d \in {UNDEF, "", "status details"}, md \in ErrorMetadatas }

\* What FlightError.fromGrpcError(error: unknown) may be applied to.
MapperInputs ==
    StatusCoded \cup
    { FlightError("client is not connected", "FAILED_PRECONDITION"),
      Val("Error", "", NoGrpcCode, "Something went wrong", ""),
      Val("object", "", NoGrpcCode, UNDEF, UNDEF),
      Val("object", "", 5, UNDEF, UNDEF),
      Val("string", "", NoGrpcCode, "string error", UNDEF),
      Val("number", "", NoGrpcCode, "42", UNDEF),
      Val("null", "", NoGrpcCode, UNDEF, UNDEF),
      Val("undefined", "", NoGrpcCode, UNDEF, UNDEF) }

\* A caller applies FlightError.fromGrpcError to a value (once in a run).
FromGrpcError(e) ==
    /\ un.op = "none"
    /\ un' = [NoCall EXCEPT !.op = "fromGrpcError", !.input = e, !.out = fromGrpcError(e),
                            !.phase = IF fromGrpcError(e).kind = "TypeError"
                                      THEN "threw" ELSE "returned"]
    /\ UNCHANGED <<sessionVars, sent, hs, last, br>>

\* The ServiceErrors the transport passes to a unary callback or emits on a
\* stream: a status code, a message, a details string and a Metadata.
TransportErrors ==
    { ValM("ServiceError", "", c, "status message", d, md) :
        c \in {0, 5, 14, 99}, d \in {"", "status details"},
        md \in ErrorMetadatas \ {NoErrorMetadata} }

\* getFlightInfo() / getSchema(): getGrpcClient, createMetadata, then the
\* transport call whose callback settles the promise.
Unary(op) ==
    /\ un.phase \in {"none", "resolved", "rejected"}
    /\ IF getGrpcClient(state, grpcClient)
       THEN /\ calls < MaxCalls
            /\ calls' = calls + 1
            /\ sent' = Send(NoHeaders)
            /\ un' = [NoCall EXCEPT !.op = op, !.phase = "pending"]
            /\ last' = Did(op, Pending)
       ELSE /\ un' = [NoCall EXCEPT !.op = op, !.phase = "rejected", !.out = NotConnected]
            /\ last' = Did(op, NotConnected)
            /\ UNCHANGED <<calls, sent>>
    /\ UNCHANGED <<state, grpcClient, bearerToken, nchan, closeCalls, waits, credsThrow,
                   options, hs2, ipc, creds, hs, br>>

UnaryCallbackWith(errors) ==
    /\ un.phase = "pending"
    /\ un.op \in UnaryOps
    /\ \/ un' = [un EXCEPT !.phase = "resolved"]
       \/ \E e \in errors :
            un' = [un EXCEPT !.phase = "rejected", !.input = e, !.out = wrapError(e)]
    /\ last' = Did(un.op, un'.out)
    /\ UNCHANGED <<sessionVars, sent, hs, br>>

UnaryCallback == UnaryCallbackWith(TransportErrors)

\* Result bodies the CancelFlightInfo action may return: the encoding of a
\* CancelFlightInfoResult with a status, or bytes that are no such encoding.
ResultBodies == { ResultBody(TRUE, st) : st \in 0..4 } \cup { ResultBody(FALSE, 0) }

\* The error the generated decoder raises on bytes it cannot read.
DecodeError == Val("Error", "", NoGrpcCode, "index out of range", "")

\* CancelFlightInfoResult.decode(body): the message, or a raised error.
decodeCancelFlightInfoResult(body) ==
    IF body.valid
    THEN { [threw |-> FALSE, status |-> body.status] }
    ELSE { [threw |-> TRUE, status |-> 0], [threw |-> FALSE, status |-> 0] }

fromCancelStatusProto_Shifted(status) ==
    CASE status = 1 -> "cancelling"
      [] status = 2 -> "not-cancellable"
      [] status = 3 -> "cancelled"
      [] OTHER -> "unspecified"

fromCancelStatusProto(status) ==
    CASE status = 1 -> "cancelled"
      [] status = 2 -> "cancelling"
      [] status = 3 -> "not-cancellable"
      [] OTHER -> "unspecified"

\* cancelFlightInfo() up to its first suspension: the doAction sequence is
\* created and pulled, which fetches the channel and opens the action stream.
CancelFlightInfo ==
    /\ un.phase \in {"none", "resolved", "rejected"}
    /\ IF getGrpcClient(state, grpcClient)
       THEN /\ calls < MaxCalls
            /\ calls' = calls + 1
            /\ sent' = Send(NoHeaders)
            /\ un' = [NoCall EXCEPT !.op = "cancelFlightInfo", !.phase = "pending"]
            /\ last' = Did("cancelFlightInfo", Pending)
       ELSE /\ un' = [NoCall EXCEPT !.op = "cancelFlightInfo", !.phase = "rejected",
                                    !.out = NotConnected]
            /\ last' = Did("cancelFlightInfo", NotConnected)
            /\ UNCHANGED <<calls, sent>>
    /\ UNCHANGED <<state, grpcClient, bearerToken, nchan, closeCalls, waits, credsThrow,
                   options, hs2, ipc, creds, hs, br>>

\* The first item of the action stream reaches the loop of cancelFlightInfo:
\* a result is decoded and its status returned, an error item is thrown by
\* the sequence, the end of the sequence gives "unspecified".
CancelFlightInfoFirst ==
    /\ un.phase = "pending"
    /\ un.op = "cancelFlightInfo"
    /\ \/ \E body \in ResultBodies : \E r \in decodeCancelFlightInfoResult(body) :
            un' = IF r.threw
                  THEN [un EXCEPT !.phase = "rejected", !.out = DecodeError,
                                  !.first = FirstItem("data", body)]
                  ELSE [un EXCEPT !.phase = "resolved",
                                  !.status = fromCancelStatusProto(r.status),
                                  !.first = FirstItem("data", body)]
       \/ \E e \in TransportErrors :
            un' = [un EXCEPT !.phase = "rejected", !.input = e, !.out = wrapError(e),
                             !.first = FirstItem("error", NoItem.body)]
       \/ un' = [un EXCEPT !.phase = "resolved", !.status = "unspecified",
                            !.first = FirstItem("end", NoItem.body)]
    /\ last' = Did("cancelFlightInfo", un'.out)
    /\ UNCHANGED <<sessionVars, sent, hs, br>>

\* A result the action stream delivers after cancelFlightInfo has returned:
\* the data listener queues it, and nothing pulls the sequence any more.
CancelFlightInfoLater ==
    /\ un.op = "cancelFlightInfo"
    /\ un.phase \in {"resolved", "rejected"}
    /\ un.first.type = "data"
    /\ Len(un.later) < MaxEvents - 1
    /\ \E body \in ResultBodies : un' = [un EXCEPT !.later = Append(@, body)]
    /\ UNCHANGED <<sessionVars, sent, hs, last, br>>

\* The session right after a successful connect().
InitErrors ==
    /\ state = "connected"
    /\ grpcClient = 1
    /\ bearerToken = NULL
    /\ nchan = 1
    /\ closeCalls = [c \in {1} |-> 0]
    /\ waits = {}
    /\ calls = 0
    /\ credsThrow = FALSE
    /\ options = DefaultOptions
    /\ creds = DefaultSsl
    /\ sent = NothingSent
    /\ hs = NoHandshake
    /\ hs2 = NoHandshake
    /\ un = NoCall
    /\ ipc = NoIpc
    /\ last = [op |-> "ready", out |-> Ok,
               pre |-> [state |-> "connecting", grpcClient |-> 1,
                        bearerToken |-> NULL, nchan |-> 1,
                        closeCalls |-> [c \in {1} |-> 0], waits |-> {1}, calls |-> 0]]
    /\ br = NoBridge

NextErrors ==
    \/ \E e \in MapperInputs : FromGrpcError(e)
    \/ \E op \in UnaryOps : Unary(op)
    \/ UnaryCallback
    \/ CancelFlightInfo
    \/ CancelFlightInfoFirst
    \/ CancelFlightInfoLater
    \/ Close

SpecErrors == InitErrors /\ [][NextErrors]_vars

\* ------------------------------------------------------- session with calls
\* A fresh session, without auth or with mutual-TLS auth, on which the caller
\* connects, sets and clears the token, makes a handshake and a unary call,
\* and closes.
InitToken ==
    /\ state = "disconnected"
    /\ grpcClient = NoCh
    /\ bearerToken = NULL
    /\ nchan = 0
    /\ closeCalls = [c \in {} |-> 0]
    /\ waits = {}
    /\ calls = 0
    /\ options \in { o \in AuthOptions : o.auth.type \in {"none", "mtls"} }
    /\ credsThrow \in {FALSE, UsesKeyMaterial(options)}
    /\ creds = NoCreds
    /\ sent = NothingSent
    /\ hs = NoHandshake
    /\ hs2 = NoHandshake
    /\ un = NoCall
    /\ ipc = NoIpc
    /\ last = [op |-> "new", out |-> Ok,
               pre |-> [state |-> "disconnected", grpcClient |-> NoCh,
                        bearerToken |-> NULL, nchan |-> 0,
                        closeCalls |-> [c \in {} |-> 0], waits |-> {}, calls |-> 0]]
    /\ br = NoBridge

NextToken ==
    \/ Connect
    \/ \E c \in 1..MaxChannels : Ready(c)
    \/ Close
    \/ setBearerToken("tokA")
    \/ clearBearerToken
    \/ Handshake
    \/ HsMetadata(Meta(<< <<"Bearer ", "abc123">> >>, <<>>))
    \/ HsData(EmptyBuffer)
    \/ HsEnd
    \/ Unary("getFlightInfo")
    \/ UnaryCallbackWith({Val("Error", "", NoGrpcCode, "connection failed", "")})

SpecToken == InitToken /\ [][NextToken]_vars

\* ------------------------------------------------------------ stream bridge
\* br is one stream handle: the async generator of a read operation, or a
\* DoPutStream / DoExchangeStream with the generator of its results().
\*   phase     where the consumer stands: "created" (generator body not yet
\*             started), "parked" (awaiting the notify promise), "woken"
\*             (notify() called, continuation not yet run), "idle" (suspended
\*             at yield, the consumer holds the item), "done", "thrown",
\*             "returned" (the consumer left its loop by break or return)
\*   open      the transport stream exists
\*   listening the data/error/end listeners are registered
\*   queue     the bridge's queue;  notify: the waiter slot is set
\*   emitted   every event the transport emitted on the stream, in order
\*   missed    how many of them were emitted while nobody listened
\*   observed  the values the consumer received, in order
\*   cancelled cancel() reached the transport stream
\*   thrown    the error thrown to the consumer, Ok if none
Item(type, value, err) == [type |-> type, value |-> value, err |-> err]

\* Errors a stream may emit: the status of a cancelled call, a server status
\* with details, a plain Error.
StreamErrors ==
    { Val("ServiceError", "", 1, "1 CANCELLED", "Cancelled on client"),
      Val("Error", "", NoGrpcCode, "stream failed", "") }

\* Only the duplex wrappers define cancel(); the read operations return plain
\* async generators.
HasCancel(kind) == kind \in DuplexOps

\* The session right after a successful connect().
InitBridge ==
    /\ state = "connected"
    /\ grpcClient = 1
    /\ bearerToken = NULL
    /\ nchan = 1
    /\ closeCalls = [c \in {1} |-> 0]
    /\ waits = {}
    /\ calls = 0
    /\ credsThrow = FALSE
    /\ options = DefaultOptions
    /\ creds = DefaultSsl
    /\ sent = NothingSent
    /\ hs = NoHandshake
    /\ hs2 = NoHandshake
    /\ un = NoCall
    /\ ipc = NoIpc
    /\ last = [op |-> "ready", out |-> Ok,
               pre |-> [state |-> "connecting", grpcClient |-> 1,
                        bearerToken |-> NULL, nchan |-> 1,
                        closeCalls |-> [c \in {1} |-> 0], waits |-> {1}, calls |-> 0]]
    /\ br = NoBridge

\* The operations whose body runs at the call: doPut() and doExchange() are
\* plain methods, the read operations are async generator methods whose body
\* runs at the first next().
opensAtCall_Always(k) == TRUE
opensAtCall(k) == k \in DuplexOps

\* A streaming operation is called.  doPut()/doExchange() fetch the channel and
\* open the transport stream at once and wrap it; the read operations only
\* create their generator.  One handle is followed at a time: an operation is
\* called again once the handle of the previous call has finished, and the
\* new handle shares nothing with it.
Open(k) ==
    /\ \/ br.kind = "none"
       \/ br.phase \in {"done", "thrown", "returned"} /\ calls < MaxCalls
    /\ IF opensAtCall(k)
       THEN IF getGrpcClient(state, grpcClient)
            THEN /\ calls' = calls + 1
                 /\ sent' = Send(NoHeaders)
                 /\ br' = [NoBridge EXCEPT !.kind = k, !.phase = "created", !.open = TRUE]
                 /\ last' = Did(k, Ok)
            ELSE /\ last' = Did(k, NotConnected)
                 /\ UNCHANGED <<calls, sent, br>>
       ELSE /\ br' = [NoBridge EXCEPT !.kind = k, !.phase = "created"]
            /\ last' = Did(k, Ok)
            /\ UNCHANGED <<calls, sent>>
    /\ UNCHANGED <<state, grpcClient, bearerToken, nchan, closeCalls, waits, credsThrow,
                   options, hs2, ipc, creds, hs, un>>

\* push(item): append, and wake the waiter if one is parked.
pushWakes_Never(b) == b
pushWakes(b) ==
    IF b.notify
    THEN [b EXCEPT !.notify = FALSE,
                   !.phase = IF b.phase = "parked" THEN "woken" ELSE b.phase]
    ELSE b

enqueue_Drop(q, item) == q
enqueue(q, item) == Append(q, item)

push(b, item) == pushWakes([b EXCEPT !.queue = enqueue(b.queue, item)])

\* One turn of the generator loop: park when the queue is empty, otherwise
\* take the head and yield it, throw it or finish.
Turn(b) ==
    IF b.queue = <<>>
    THEN [b EXCEPT !.notify = TRUE, !.phase = "parked"]
    ELSE LET item == Head(b.queue)
             rest == [b EXCEPT !.queue = Tail(b.queue)]
         IN  CASE item.type = "data" ->
                    [rest EXCEPT !.observed = Append(b.observed, item.value),
                                 !.phase = "idle"]
               [] item.type = "error" ->
                    [rest EXCEPT !.thrown = item.err, !.phase = "thrown"]
               [] OTHER ->
                    [rest EXCEPT !.phase = "done"]

\* The consumer calls next().  The first call starts the generator body: a read
\* operation fetches the channel and opens its transport stream there; the
\* listeners are registered on a fresh empty queue and the loop is entered.
Pull ==
    /\ br.phase \in {"created", "idle"}
    /\ IF br.phase = "created"
       THEN IF br.kind \in ReadOps /\ ~getGrpcClient(state, grpcClient)
            THEN /\ br' = [br EXCEPT !.thrown = NotConnected, !.phase = "thrown"]
                 /\ UNCHANGED <<calls, sent>>
            ELSE /\ br' = Turn([br EXCEPT !.open = TRUE, !.listening = TRUE])
                 /\ calls' = IF br.kind \in ReadOps THEN calls + 1 ELSE calls
                 /\ sent' = IF br.kind \in ReadOps THEN Send(NoHeaders) ELSE sent
       ELSE /\ br' = Turn(br)
            /\ UNCHANGED <<calls, sent>>
    /\ last' = Did("pull", br'.thrown)
    /\ UNCHANGED <<state, grpcClient, bearerToken, nchan, closeCalls, waits, credsThrow,
                   options, hs2, ipc, creds, hs, un>>

\* The continuation of the notify promise runs and the loop goes on.
Resume ==
    /\ br.phase = "woken"
    /\ br' = Turn(br)
    /\ last' = Did("pull", br'.thrown)
    /\ UNCHANGED <<sessionVars, rpcVars>>

\* next() on a generator that has finished, thrown or been returned: the
\* body is not entered again and the call reports the end of the sequence.
PullFinished ==
    /\ br.phase \in {"done", "thrown", "returned"}
    /\ last' = Did("next", Ok)
    /\ UNCHANGED <<sessionVars, rpcVars, br>>

\* The consumer leaves its for-await loop by break or return while it holds an
\* item: the generator, suspended at its yield, is finished by return().  The
\* body has no finally: the listeners stay registered, the transport stream is
\* not cancelled and the queue keeps what it holds.  cancelFlightInfo() leaves
\* its doAction sequence this way after the first result.
Return ==
    /\ br.phase = "idle"
    /\ br' = [br EXCEPT !.phase = "returned"]
    /\ last' = Did("return", Ok)
    /\ UNCHANGED <<sessionVars, rpcVars>>

\* The transport emits an event on the stream.  Nothing comes after 'end' and
\* a stream reports at most one error.  A registered listener pushes the item;
\* without a listener the emitter has nobody to call.
CanEmit ==
    /\ br.open
    /\ Len(br.emitted) < MaxEvents
    /\ \A i \in DOMAIN br.emitted : br.emitted[i].type # "end"

Deliver(ev, item) ==
    /\ br' = IF br.listening
             THEN [push(br, item) EXCEPT !.emitted = Append(br.emitted, ev)]
             ELSE [br EXCEPT !.emitted = Append(br.emitted, ev),
                             !.missed = br.missed + 1]
    /\ UNCHANGED <<sessionVars, rpcVars, last>>

NextValue == Cardinality({i \in DOMAIN br.emitted : br.emitted[i].type = "data"}) + 1

EmitData ==
    /\ CanEmit
    /\ Deliver(Item("data", NextValue, Ok), Item("data", NextValue, Ok))

EmitError ==
    /\ CanEmit
    /\ \A i \in DOMAIN br.emitted : br.emitted[i].type # "error"
    /\ \E e \in StreamErrors : Deliver(Item("error", 0, e), Item("error", 0, wrapError(e)))

EmitEnd ==
    /\ CanEmit
    /\ Deliver(Item("end", 0, Ok), Item("end", 0, Ok))

\* cancel() of DoPutStream / DoExchangeStream: forwarded to the stream.
streamCancel_NoOp(b) == b
streamCancel(b) == [b EXCEPT !.cancelled = TRUE]

cancel ==
    /\ br.kind # "none"
    /\ HasCancel(br.kind)
    /\ ~br.cancelled
    /\ br' = streamCancel(br)
    /\ last' = Did("cancel", Ok)
    /\ UNCHANGED <<sessionVars, rpcVars>>

NextBridge ==
    \/ \E k \in ReadOps \cup DuplexOps : Open(k)
    \/ Pull
    \/ Resume
    \/ PullFinished
    \/ Return
    \/ \E op \in UnaryOps : Invoke(op)
    \/ EmitData
    \/ EmitError
    \/ EmitEnd
    \/ cancel

SpecBridge == InitBridge /\ [][NextBridge]_vars

\* The consumer keeps pulling: next() is called again after every item and the
\* continuation of a resolved notify promise is run by the event loop.
FairSpecBridge == SpecBridge /\ WF_vars(Pull) /\ WF_vars(Resume)

BridgeTypeOK ==
    /\ br.phase \in {"none", "created", "parked", "woken", "idle", "done", "thrown",
                   "returned"}
    /\ br.kind \in {"none"} \cup ReadOps \cup DuplexOps
    /\ Len(br.emitted) <= MaxEvents
    /\ br.notify => br.phase = "parked"

\* ------------------------------------------------------- session properties
SessionUnchanged ==
    /\ state = last.pre.state
    /\ grpcClient = last.pre.grpcClient
    /\ bearerToken = last.pre.bearerToken
    /\ nchan = last.pre.nchan
    /\ closeCalls = last.pre.closeCalls
    /\ waits = last.pre.waits
    /\ calls = last.pre.calls

\* C1 (as claimed): closed is terminal; no step of the session leaves the
\* closed state, whatever event arrives afterwards.
ClosedIsTerminal == [][state = "closed" => state' = "closed"]_vars

\* C2: an RPC operation whose body runs while the state is not connected fails
\* with FAILED_PRECONDITION 'client is not connected', hands nothing to the
\* transport and leaves state, channel handle and bearer token as they were.
NotConnectedFailsLocally ==
    (last.op \in RpcOps /\ last.pre.state # "connected") =>
        /\ last.out = FlightError("client is not connected", "FAILED_PRECONDITION")
        /\ calls = last.pre.calls
        /\ state = last.pre.state
        /\ grpcClient = last.pre.grpcClient
        /\ bearerToken = last.pre.bearerToken

\* An operation was refused while a channel existed but was not yet ready.
NotConnectedWitness ==
    /\ last.op = "doGet"
    /\ last.pre.state = "connecting"
    /\ last.pre.grpcClient # NoCh
    /\ last.out.code = "FAILED_PRECONDITION"

\* C3: when close() returns the state is closed, the token is null and the
\* channel handle is null, from whatever state it was called; a close() on an
\* already closed session keeps it so and runs the transport's close() on no
\* channel, and no channel ever has the transport's close() run on it twice.
CloseIsSafeAndIdempotent ==
    /\ last.op = "close" =>
        /\ state = "closed"
        /\ bearerToken = NULL
        /\ grpcClient = NoCh
        /\ last.pre.state = "closed" =>
              /\ last.pre.grpcClient = NoCh
              /\ closeCalls = last.pre.closeCalls
    /\ \A c \in DOMAIN closeCalls : closeCalls[c] <= 1

\* close() ran on a closed session that had closed a channel before.
RepeatedCloseWitness ==
    /\ last.op = "close"
    /\ last.pre.state = "closed"
    /\ \E c \in DOMAIN closeCalls : closeCalls[c] = 1

\* C4: connect() on a closed session rejects with FAILED_PRECONDITION 'client
\* has been closed' and changes nothing: no channel, no readiness wait, same
\* state and token.
ConnectOnClosedRejects ==
    (last.op = "connect" /\ last.pre.state = "closed") =>
        /\ last.out = FlightError("client has been closed", "FAILED_PRECONDITION")
        /\ SessionUnchanged

ConnectOnClosedWitness ==
    /\ last.op = "connect"
    /\ last.pre.state = "closed"
    /\ last.out.kind = "FlightError"

\* The last step was a connect() attempt that ended in a rejection other than
\* the closed-session refusal.
ConnectFailed ==
    /\ last.op \in {"connect", "ready"}
    /\ last.out.kind \notin {"ok", "pending"}
    /\ last.pre.state # "closed"

\* C5 (as claimed): after a failed connect() the state is disconnected, the
\* rejection is a FlightError and the session holds no channel handle, as a
\* fresh session does.
FailedConnectStartsClean ==
    ConnectFailed =>
        /\ state = "disconnected"
        /\ last.out.kind = "FlightError"
        /\ grpcClient = NoCh

\* C6 (as claimed): every step into connected starts in connecting and is the
\* successful readiness callback of a connect().
ConnectedOnlyFromConnecting ==
    [][(state # "connected" /\ state' = "connected") =>
          (state = "connecting" /\ last'.op = "ready" /\ last'.out = Ok)]_vars

\* C7: connect() on a connected session resolves and changes nothing: no new
\* channel, no readiness wait, same state, handle and token.
ConnectWhenConnectedIsNoOp ==
    (last.op = "connect" /\ last.pre.state = "connected") =>
        /\ last.out = Ok
        /\ SessionUnchanged

ConnectWhenConnectedWitness ==
    /\ last.op = "connect"
    /\ last.pre.state = "connected"
    /\ last.pre.grpcClient # NoCh
    /\ last.out = Ok
\* -------------------------------------------------------- bridge properties
IsPrefix(a, b) == Len(a) <= Len(b) /\ \A i \in 1..Len(a) : a[i] = b[i]

DataEvents(evs) == SelectSeq(evs, LAMBDA e : e.type = "data")
DataValues(evs) == [i \in 1..Len(DataEvents(evs)) |-> DataEvents(evs)[i].value]

\* evs is n data events followed by one event of the given type.
DataThen(evs, n, type) ==
    /\ Len(evs) >= n + 1
    /\ \A i \in 1..n : evs[i].type = "data"
    /\ evs[n + 1].type = type

\* C8 (as claimed): whatever the interleaving of pulls and events, the
\* consumer receives the emitted data items in emission order, none lost,
\* duplicated or reordered, and after N data events and an end event it has
\* received exactly those N and finishes normally.
StreamBridgeFifo ==
    /\ IsPrefix(br.observed, DataValues(br.emitted))
    /\ \A n \in 0..MaxEvents :
         DataThen(br.emitted, n, "end") =>
            /\ br.phase # "thrown"
            /\ br.phase = "done" => br.observed = DataValues(br.emitted)

\* C9 (as claimed): after M data events and then an error event the consumer
\* receives exactly the M items and its next pull throws the mapped error;
\* nothing more is received, whatever the transport emits later.
StreamBridgeError ==
    \A m \in 0..MaxEvents :
        DataThen(br.emitted, m, "error") =>
            /\ Len(br.observed) <= m
            /\ IsPrefix(br.observed, DataValues(br.emitted))
            /\ br.phase # "done"
            /\ br.phase = "thrown" =>
                  /\ br.observed = [i \in 1..m |-> i]
                  /\ br.thrown = wrapError(br.emitted[m + 1].err)

CancelledAndTerminated ==
    /\ br.cancelled
    /\ \E i \in DOMAIN br.queue : br.queue[i].type \in {"error", "end"}

EmittedItem(ev) == IF ev.type = "error" THEN Item("error", 0, wrapError(ev.err)) ELSE ev

ProductionNeverBlocks ==
    /\ [][(br.listening /\ Len(br'.emitted) = Len(br.emitted) + 1) =>
             /\ br'.queue = Append(br.queue, EmittedItem(br'.emitted[Len(br'.emitted)]))
             /\ br'.missed = br.missed
             /\ ~br'.notify]_vars
    /\ [](last.op = "return" => (SessionUnchanged /\ ~br.notify))
    /\ []((last.op \in UnaryOps /\ br.phase = "returned") => last.out = Pending)
    /\ []((br.phase = "returned" /\ CanEmit) => ENABLED EmitData)

\* After the consumer left its loop the stream went on delivering into the
\* queue and a unary call was handed to the transport.
AbandonWitness ==
    /\ br.phase = "returned"
    /\ Len(br.queue) >= 1
    /\ br.queue[Len(br.queue)].type = "end"
    /\ last.op = "getFlightInfo"
    /\ last.out = Pending

EventsOfType(type) == SelectSeq(hs.events, LAMBDA ev : ev.type = type)

\* The response metadata and the last response message the stream delivered.
ReceivedMeta == IF EventsOfType("metadata") = <<>> THEN NoMeta ELSE EventsOfType("metadata")[1].meta
ReceivedPayload ==
    IF EventsOfType("data") = <<>> THEN EmptyBuffer
    ELSE EventsOfType("data")[Len(EventsOfType("data"))].payload

IsBearerValue(value) == value[1] \in {"Bearer ", "bearer "}

\* The token the precedence rule names for what the stream delivered.
ExpectedToken ==
    IF Len(ReceivedMeta.authorization) > 0 /\ IsBearerValue(ReceivedMeta.authorization[1])
    THEN ReceivedMeta.authorization[1][2]
    ELSE IF Len(ReceivedMeta.bin) > 0 /\ ReceivedMeta.bin[1].type = "string"
         THEN ReceivedMeta.bin[1].text
         ELSE IF Len(ReceivedMeta.bin) > 0 /\ ReceivedMeta.bin[1].type = "buffer"
              THEN ReceivedMeta.bin[1].bytes[1]
              ELSE IF ReceivedPayload.bytes # <<>>
                   THEN ReceivedPayload.bytes[1]
                   ELSE UNDEF

\* C13: the token of a resolved handshake is the one the precedence names
\* (Bearer authorization value, else auth-token-bin as string or decoded
\* bytes, else the non-empty payload decoded, else none), in whatever order
\* the metadata and data events arrived; an authorization value that is not a
\* Bearer value counts for nothing.
HandshakeTokenPrecedence ==
    hs.settled = "resolved" => hs.result.token = ExpectedToken

\* The response message arrived before the metadata; the Basic authorization
\* value was passed over for the binary token field, which beat the payload.
HandshakeTokenPrecedenceWitness ==
    /\ hs.settled = "resolved"
    /\ Len(hs.events) = 3
    /\ hs.events[1].type = "data"
    /\ hs.events[1].payload = BufferFrom("payload-token")
    /\ hs.events[2].type = "metadata"
    /\ hs.events[2].meta = Meta(<< <<"Basic ", "dXNlcjpwYXNz">> >>, << BufferFrom("binary-token") >>)
    /\ hs.result.token = "binary-token"

\* C14: at the step that resolves a handshake with an extracted token the
\* session's bearer token is that token and so is the token of the result;
\* 'Bearer abc123' with an empty payload gives 'abc123'.
TokenInstalledBeforeResolve ==
    (last.op = "handshake:end" /\ hs.settled = "resolved") =>
        /\ hs.result.token # UNDEF => bearerToken = hs.result.token
        /\ hs.result.token = UNDEF => bearerToken = last.pre.bearerToken
        /\ (/\ ReceivedMeta.authorization = << <<"Bearer ", "abc123">> >>
            /\ ReceivedPayload = EmptyBuffer) =>
               (hs.result.token = "abc123" /\ bearerToken = "abc123")

TokenInstalledWitness ==
    /\ last.op = "handshake:end"
    /\ hs.settled = "resolved"
    /\ ReceivedMeta = Meta(<< <<"Bearer ", "abc123">> >>, <<>>)
    /\ EventsOfType("data") # <<>>
    /\ ReceivedPayload = EmptyBuffer
    /\ last.pre.bearerToken = NULL
    /\ bearerToken = "abc123"

\* C15 (as claimed): when the stream ends without a response message the
\* handshake is rejected with INTERNAL 'no handshake response received'.
EndWithoutResponseRejectsInternal ==
    (last.op = "handshake:end" /\ EventsOfType("data") = <<>>) =>
        (hs.settled = "rejected" /\ hs.error = NoHandshakeResponse)

\* C15 (amended): when the stream ends without a response message the
\* handshake is rejected and the token is left alone; the rejection is
\* INTERNAL 'no handshake response received' unless an error event came
\* first, whose mapped error then stands.
EndWithoutResponseRejects ==
    (last.op = "handshake:end" /\ EventsOfType("data") = <<>>) =>
        /\ hs.settled = "rejected"
        /\ bearerToken = last.pre.bearerToken
        /\ hs.error = IF EventsOfType("error") = <<>> THEN NoHandshakeResponse
                      ELSE wrapError(EventsOfType("error")[1].err)

\* The stream delivered only its metadata and ended.
EndWithoutResponseWitness ==
    /\ last.op = "handshake:end"
    /\ Len(hs.events) = 2
    /\ hs.events[1].type = "metadata"
    /\ hs.error = NoHandshakeResponse
    /\ hs.error.code = "INTERNAL"

\* ------------------------------------------------------- mapper properties
FlightErrorCodes ==
    {"CANCELLED", "UNKNOWN", "INVALID_ARGUMENT", "DEADLINE_EXCEEDED", "NOT_FOUND",
     "ALREADY_EXISTS", "PERMISSION_DENIED", "RESOURCE_EXHAUSTED", "FAILED_PRECONDITION",
     "ABORTED", "OUT_OF_RANGE", "UNIMPLEMENTED", "INTERNAL", "UNAVAILABLE", "DATA_LOSS",
     "UNAUTHENTICATED"}

IsFlightError(v) == v.kind = "FlightError" /\ v.code \in FlightErrorCodes

\* C16 (as claimed): every failure surfaced to a caller is a FlightError with
\* one of the sixteen kinds: a rejected connect(), handshake(), getFlightInfo(),
\* getSchema() or cancelFlightInfo(), and every error thrown to the consumer
\* of a read or results() sequence.
NoRawErrorReachesCaller ==
    /\ un.phase = "rejected" => IsFlightError(un.out)
    /\ (last.op \in {"connect", "ready"} /\ last.out.kind \notin {"ok", "pending"}) =>
          IsFlightError(last.out)
    /\ hs.settled = "rejected" => IsFlightError(hs.error)
    /\ br.phase = "thrown" => IsFlightError(br.thrown)

\* The kind the table gives for a status code.
KindOfStatus(c) ==
    IF c \in 1..16
    THEN <<"CANCELLED", "UNKNOWN", "INVALID_ARGUMENT", "DEADLINE_EXCEEDED", "NOT_FOUND",
           "ALREADY_EXISTS", "PERMISSION_DENIED", "RESOURCE_EXHAUSTED",
           "FAILED_PRECONDITION", "ABORTED", "OUT_OF_RANGE", "UNIMPLEMENTED", "INTERNAL",
           "UNAVAILABLE", "DATA_LOSS", "UNAUTHENTICATED">>[c]
    ELSE "UNKNOWN"

\* The mapper was given, by a caller or by a failed call, a status error: an
\* object with a numeric code, a message and a details string.
MappedStatusError ==
    /\ un.phase \in {"returned", "threw", "rejected"}
    /\ un.input.kind \in {"ServiceError", "object"}
    /\ un.input.grpcCode # NoGrpcCode
    /\ un.input.message # UNDEF
    /\ un.input.details # UNDEF

MapperIsTotal ==
    un.op = "fromGrpcError" =>
        /\ un.phase = "returned"
        /\ IsFlightError(un.out)
        /\ (un.input.kind # "FlightError" /\ un.input.grpcCode = NoGrpcCode) =>
              /\ un.out.code = "UNKNOWN"
              /\ un.out.message = IF un.input.kind = "Error" THEN un.input.message
                                  ELSE String(un.input)

\* -------------------------------------------------- credentials properties
ChannelCreated == last.op = "connect" /\ last.out = Pending

\* C19 (as claimed): the credentials a channel is created with are insecure
\* exactly when tls is false and no mutual-TLS auth is configured.
InsecureIffTlsFalse ==
    ChannelCreated =>
        (creds.kind = "insecure" <=>
            (options.tls.kind = "false" /\ options.auth.type # "mtls"))

\* C19 (amended): explicit credentials are used as they are; without them the
\* credentials are insecure exactly when tls is false and no mutual-TLS auth
\* is configured.
InsecureIffTlsFalseUnlessExplicit ==
    ChannelCreated =>
        IF options.credentials # "unset"
        THEN creds.explicit /\ creds.kind = options.credentials
        ELSE /\ ~creds.explicit
             /\ creds.kind \in {"insecure", "ssl"}
             /\ creds.kind = "insecure" <=>
                   (options.tls.kind = "false" /\ options.auth.type # "mtls")

\* tls is false but mutual-TLS auth is configured: the channel is secure.
InsecureWitness ==
    /\ ChannelCreated
    /\ options.credentials = "unset"
    /\ options.tls.kind = "false"
    /\ options.auth.type = "mtls"
    /\ creds.kind = "ssl"
    /\ creds.clientCert

\* C20 (as claimed): the no-op identity check is handed to the transport
\* exactly when tls is an options object whose verifyServerCert is false.
OverrideIffVerifyFalse ==
    ChannelCreated =>
        (creds.checkServerIdentity = "noop" <=>
            (options.tls.kind = "object" /\ options.tls.verifyServerCert = "false"))

\* C20 (amended): the no-op identity check is handed to the transport exactly
\* when tls is an options object whose verifyServerCert is false and neither
\* explicit credentials nor mutual-TLS auth are configured.
OverrideOnlyOnRequest ==
    ChannelCreated =>
        (creds.checkServerIdentity = "noop" <=>
            /\ options.tls.kind = "object"
            /\ options.tls.verifyServerCert = "false"
            /\ options.credentials = "unset"
            /\ options.auth.type # "mtls")

\* The override was installed for a tls object with verifyServerCert false.
OverrideWitness ==
    /\ ChannelCreated
    /\ options.tls = Tls("object", "false")
    /\ options.auth.type = "basic"
    /\ creds.checkServerIdentity = "noop"
    /\ creds.kind = "ssl"

\* --------------------------------------------------- ipc framing properties
pad(n) == (8 - (n % 8)) % 8

RECURSIVE FramedLength(_)
FramedLength(flightData) ==
    IF flightData = <<>> THEN 0
    ELSE LET h == Len(Head(flightData).dataHeader)
             b == Len(Head(flightData).dataBody)
         IN  (IF h > 0 THEN 8 + h + pad(h) + b ELSE 0) + FramedLength(Tail(flightData))

\* C21: the length of the output of flightDataToIpc is the sum, over the
\* messages with a non-empty header, of 8 + header length + pad(header
\* length) + body length; other messages add nothing, and no message gives
\* no bytes.
IpcLengthDetermined ==
    ipc.called =>
        /\ Len(ipc.result) = FramedLength(ipc.flightData)
        /\ ipc.flightData = <<>> => ipc.result = <<>>

\* A body without a header was skipped, and a header of 8 bytes got no padding.
IpcLengthWitness ==
    /\ ipc.called
    /\ Len(ipc.flightData) = 2
    /\ Len(ipc.flightData[1].dataHeader) = 0
    /\ Len(ipc.flightData[1].dataBody) = 2
    /\ Len(ipc.flightData[2].dataHeader) = 8
    /\ Len(ipc.flightData[2].dataBody) = 1
    /\ Len(ipc.result) = 17

Zeros(n) == [i \in 1..n |-> 0]
LittleEndian4(n) ==
    <<n % 256, (n \div 256) % 256, (n \div 65536) % 256, (n \div 16777216) % 256>>

RECURSIVE FramedBlocks(_)
FramedBlocks(flightData) ==
    IF flightData = <<>> THEN <<>>
    ELSE LET header == Head(flightData).dataHeader
             body == Head(flightData).dataBody
         IN  (IF Len(header) > 0
              THEN <<255, 255, 255, 255>> \o LittleEndian4(Len(header)) \o header
                     \o Zeros(pad(Len(header))) \o body
              ELSE <<>>) \o FramedBlocks(Tail(flightData))

\* C22: the output of flightDataToIpc is the concatenation, in input order, of
\* one block per message with a non-empty header: FF FF FF FF, the header
\* length as 4 little-endian bytes, the header bytes, zero bytes up to the
\* next multiple of 8, then the body bytes with nothing after them.
IpcBlocksInOrder ==
    ipc.called => ipc.result = FramedBlocks(ipc.flightData)

\* Two blocks were written, the first one padded and followed by its body.
IpcBlocksWitness ==
    /\ ipc.called
    /\ Len(ipc.flightData) = 2
    /\ Len(ipc.flightData[1].dataHeader) = 3
    /\ Len(ipc.flightData[1].dataBody) = 2
    /\ Len(ipc.flightData[2].dataHeader) = 9
    /\ ipc.result[5] = 3
    /\ ipc.result[17] = 129
    /\ ipc.result[19] = 255

\* ------------------------------------------------ cancelFlightInfo properties
\* C23: cancelFlightInfo issues one action call; it resolves with the status
\* of the first result (1 cancelled, 2 cancelling, 3 not-cancellable, else
\* unspecified) whatever results follow, and with "unspecified", without
\* failing, when the action stream ends with no result.
CancelStatusFromFirstResult ==
    /\ (last.op = "cancelFlightInfo" /\ last.out = Pending) => calls = last.pre.calls + 1
    /\ (last.op = "cancelFlightInfo" /\ last.out # Pending) => calls = last.pre.calls
    /\ (un.op = "cancelFlightInfo" /\ un.first.type = "data" /\ un.first.body.valid) =>
          /\ un.phase = "resolved"
          /\ un.status = CASE un.first.body.status = 1 -> "cancelled"
                            [] un.first.body.status = 2 -> "cancelling"
                            [] un.first.body.status = 3 -> "not-cancellable"
                            [] OTHER -> "unspecified"
    /\ (un.op = "cancelFlightInfo" /\ un.first.type = "end") =>
          /\ un.phase = "resolved"
          /\ un.status = "unspecified"

\* A first result said "cancelling" and a later one said "cancelled".
CancelStatusWitness ==
    /\ un.op = "cancelFlightInfo"
    /\ un.phase = "resolved"
    /\ un.first = FirstItem("data", ResultBody(TRUE, 2))
    /\ un.later = <<ResultBody(TRUE, 1)>>
    /\ un.status = "cancelling"

\* ------------------------------------------------------ laziness properties
Finished(b) == b.phase \in {"done", "thrown", "returned"}

\* C24: calling a read operation opens no transport stream; the first pull of
\* the returned sequence opens exactly one, and later pulls open none; a
\* sequence that has finished or failed stays so and yields nothing more; and
\* calling the operation again gives a fresh sequence whose first pull opens
\* another stream.
LazySinglePass ==
    /\ [][(br'.phase = "created" /\ br' # br /\ br'.kind \in ReadOps) =>
             /\ calls' = calls
             /\ br' = [NoBridge EXCEPT !.kind = br'.kind, !.phase = "created"]]_vars
    /\ [][(br.kind \in ReadOps /\ ~br.open /\ br'.open) =>
             /\ br.phase = "created"
             /\ calls' = calls + 1]_vars
    /\ [][(br.kind \in ReadOps /\ br.open /\ br'.phase # "created") =>
             /\ br'.open
             /\ calls' # calls => br' = br]_vars
    /\ [][(br.kind \in ReadOps /\ Finished(br) /\ br'.phase # "created") =>
             /\ br'.phase = br.phase
             /\ br'.observed = br.observed
             /\ br'.thrown = br.thrown]_vars
    /\ []((br.kind \in ReadOps /\ br.phase = "created") => ~br.open)

\* A second doGet sequence, called after the first one finished, has opened
\* its own stream and received its own first item.
LazyWitness ==
    /\ br.kind = "doGet"
    /\ br.open
    /\ calls = 2
    /\ br.observed = <<1>>
    /\ br.emitted = <<Item("data", 1, Ok)>>

\* --------------------------------------------------------- token properties
\* C25: the bearer token changes only in a step of setBearerToken, of
\* clearBearerToken or close() (to none), or of a handshake's end listener
\* that has an extracted token (to that token); connect(), its readiness
\* callback, the metadata of a call and the unary calls, resolved or
\* rejected, leave it as it is, and the options never change.
TokenChangesOnlyBy ==
    /\ [][bearerToken' # bearerToken =>
             \/ last'.op = "setBearerToken"
             \/ last'.op \in {"clearBearerToken", "close"} /\ bearerToken' = NULL
             \/ /\ last'.op = "handshake:end"
                /\ hs'.extractedToken # UNDEF
                /\ bearerToken' = hs'.extractedToken]_vars
    /\ [][options' = options]_vars

\* A handshake installed its token over the caller's and a rejected unary
\* call then left it in place.
TokenFrameWitness ==
    /\ hs.extractedToken # UNDEF
    /\ bearerToken = hs.extractedToken
    /\ un.phase = "rejected"
    /\ last.op \in UnaryOps
    /\ last.pre.bearerToken = bearerToken
    /\ \E i \in DOMAIN hs.events : hs.events[i].type = "end"

\* ------------------------------------------------------ rendezvous properties
IsTerminal(item) == item.type \in {"error", "end"}

\* C26 (as claimed): once an error item or an end marker is in the queue
\* nothing is enqueued behind it: the queue never holds an end marker and an
\* error item together, nor a data item behind a terminal item.
TerminalItemIsLast ==
    \A i \in DOMAIN br.queue : IsTerminal(br.queue[i]) => i = Len(br.queue)

\* C27: the waiter slot is set exactly while the consumer is parked; a step
\* that enqueues an item leaves the slot clear and wakes the consumer if it
\* was parked; the consumer is never parked while the queue holds an item;
\* and a turn of the consumer that finds an item takes the head of the queue
\* and does not park.
SingleWaiterRendezvous ==
    /\ [](br.notify <=> br.phase = "parked")
    /\ [](br.phase = "parked" => br.queue = <<>>)
    /\ [][Len(br'.queue) > Len(br.queue) =>
             /\ ~br'.notify
             /\ br.phase = "parked" => br'.phase = "woken"
             /\ br.phase # "parked" => br'.phase = br.phase]_vars
    /\ [][((Pull \/ Resume) /\ br.queue # <<>>) =>
             /\ br'.queue = Tail(br.queue)
             /\ br'.phase \in {"idle", "thrown", "done"}
             /\ ~br'.notify]_vars

\* A parked consumer was woken by the first of two items and has taken it.
RendezvousWitness ==
    /\ br.phase = "idle"
    /\ br.observed = <<1>>
    /\ Len(br.queue) = 1
    /\ last.op = "pull"
    /\ Len(br.emitted) = 2
    /\ br.missed = 0

\* ------------------------------------------------------ termination properties
TerminalEmitted == \E i \in DOMAIN br.emitted : IsTerminal(br.emitted[i])
FirstTerminal ==
    br.emitted[CHOOSE i \in DOMAIN br.emitted :
                  /\ IsTerminal(br.emitted[i])
                  /\ \A j \in 1..(i - 1) : ~IsTerminal(br.emitted[j])]

\* C28 (as claimed): once the stream has emitted an end or an error event, a
\* consumer that keeps pulling reaches the end of its iteration: normally
\* when the stream ended, with the mapped error thrown when it failed; so a
\* loop that collects the results of a duplex stream settles with the results
\* in order or with that error.
ConsumerTerminates ==
    /\ (TerminalEmitted ~> Finished(br))
    /\ []((TerminalEmitted /\ br.phase = "done") =>
            /\ FirstTerminal.type = "end"
            /\ br.observed = DataValues(br.emitted))
    /\ []((TerminalEmitted /\ br.phase = "thrown") =>
            /\ FirstTerminal.type = "error"
            /\ br.thrown = wrapError(FirstTerminal.err))

\* ------------------------------------------------- handshake request properties
CallsOf(name) == {i \in DOMAIN hs.streamCalls : hs.streamCalls[i] = name}

\* C29: a handshake() call writes exactly one request, with protocolVersion 0
\* and as payload the BasicAuth encoding of username and password for basic
\* auth, the configured bytes for raw-handshake auth and no bytes otherwise,
\* and then ends its writes; both come after the data, metadata, error and
\* end listeners were registered, and nothing is written after that.
HandshakeWritesOneRequest ==
    /\ [](hs.phase = "open" =>
            /\ hs.written =
                  <<[protocolVersion |-> 0,
                     payload |-> CASE options.auth.type = "basic" ->
                                        BasicAuthEncode(options.auth.username,
                                                        options.auth.password)
                                   [] options.auth.type = "handshake" -> options.auth.payload
                                   [] OTHER -> EmptyBuffer]>>
            /\ hs.writeEnded
            /\ Cardinality(CallsOf("write")) = 1
            /\ Cardinality(CallsOf("end")) = 1
            /\ \A l \in {"on:data", "on:metadata", "on:error", "on:end"} :
                  /\ CallsOf(l) # {}
                  /\ \A i \in CallsOf(l) : \A w \in CallsOf("write") : i < w
            /\ \A w \in CallsOf("write") : \A e \in CallsOf("end") : w < e)
    /\ [][hs.phase = "open" =>
             /\ hs'.written = hs.written
             /\ hs'.streamCalls = hs.streamCalls]_vars
    /\ [](hs.phase = "none" => (hs.written = <<>> /\ ~hs.writeEnded))

\* A handshake with raw-handshake auth has written the configured bytes and
\* has run to its end event.
HandshakeRequestWitness ==
    /\ hs.phase = "open"
    /\ options.auth.type = "handshake"
    /\ hs.written = <<[protocolVersion |-> 0, payload |-> BufferFrom("raw-handshake")]>>
    /\ hs.settled = "resolved"
    /\ Len(hs.events) >= 2

\* ----------------------------------------------- overlapping handshake properties
Ended(h) == \E i \in DOMAIN h.events : h.events[i].type = "end"
Received(h, type) == \E i \in DOMAIN h.events : h.events[i].type = type

\* C30: of two handshake() calls in flight on one session each resolves with
\* the token of its own stream, and once both have ended with a token the
\* session's token is the token of the call whose end event was processed
\* last; the session's token is always one of the two, never a mix.
OverlapLastWriterWins ==
    /\ hs.settled = "resolved" =>
          hs.result.token = IF Received(hs, "metadata") THEN "abc123" ELSE UNDEF
    /\ hs2.settled = "resolved" => hs2.result.token = "payload-token"
    /\ (/\ hs.settled = "resolved" /\ hs.result.token # UNDEF
        /\ hs2.settled = "resolved" /\ hs2.result.token # UNDEF) =>
          /\ last.op = "handshake:end" => bearerToken = hs.result.token
          /\ last.op = "handshake2:end" => bearerToken = hs2.result.token
    /\ bearerToken \in {NULL, "abc123", "payload-token"}

\* The first call was made first and ended last, after the second call had
\* installed its own token: the session holds the token of the first.
OverlapWitness ==
    /\ hs.openedAt = 1
    /\ hs2.openedAt = 2
    /\ last.op = "handshake:end"
    /\ last.pre.bearerToken = "payload-token"
    /\ hs2.settled = "resolved"
    /\ hs2.result.token = "payload-token"
    /\ hs.settled = "resolved"
    /\ hs.result.token = "abc123"
    /\ bearerToken = "abc123"

\* ------------------------------------------------------- channel properties
\* Channels the session has constructed and the transport was never asked to
\* close.
OpenChannels == {c \in DOMAIN closeCalls : closeCalls[c] = 0}

\* C31 (as claimed): whenever the state is connected the channel handle is
\* non-null, also when close() or another connect() ran while a connect() was
\* waiting for readiness.
ConnectedHasChannel == state = "connected" => grpcClient # NoCh

\* C32 (as claimed): a session never has more than one channel that was
\* created and not closed; a connect() during connecting creates none.
AtMostOneOpenChannel == Cardinality(OpenChannels) <= 1

\* C33 (as claimed): when close() has returned, the transport's close() has
\* run on every channel the session ever created, those of failed connect()
\* attempts included.
CloseLeaksNoChannel == last.op = "close" => OpenChannels = {}

\* ------------------------------------------- handshake and close properties
\* C34 (as claimed): on a closed session the bearer token stays null until
\* the caller calls setBearerToken, whatever a handshake stream that was still
\* open at close() emits afterwards.
ClosedKeepsTokenNull ==
    [][(state = "closed" /\ bearerToken = NULL /\ bearerToken' # NULL) =>
          last'.op = "setBearerToken"]_vars

\* C35 (as claimed): no listener of a handshake() call whose promise is
\* rejected, by a stream error or by an end without a response, changes the
\* session's bearer token, in whatever order metadata, data, error and end
\* arrive.
RejectedHandshakeKeepsToken ==
    [][(hs' # hs /\ hs'.settled = "rejected") => bearerToken' = bearerToken]_vars

\* ------------------------------------------------- duplex stream properties
\* C36 (as claimed): on a duplex handle the consumer observes every event the
\* transport emits after doPut()/doExchange() returned, in order, also those
\* emitted before the first pull: what it has received is a prefix of what
\* was emitted, and while it waits on the empty queue it has received every
\* data item emitted so far and no end or error has been emitted.
DuplexObservesEveryEvent ==
    br.kind \in DuplexOps =>
        /\ IsPrefix(br.observed, DataValues(br.emitted))
        /\ br.phase = "parked" =>
              /\ br.observed = DataValues(br.emitted)
              /\ ~TerminalEmitted
====
